---- MODULE Spec2Model ----
(***************************************************************************)
(* Model of workspacectl's record store (src/workspace.rs), pointer store  *)
(* (src/cache.rs) and the `open` command composing them (src/lib.rs).      *)
(*                                                                         *)
(* A string is a sequence of characters.  A character is written as a      *)
(* short TLA+ string: "a", ".", "/", ":", " " stand for themselves, "LF"   *)
(* for the newline and "ESC" for the escape control character.  The words  *)
(* "toml", "config", "cache", "workspacectl", "current", "atomicwrite",    *)
(* "tmpfile" and "tmp" stand for these fixed runs of letters, which the    *)
(* inputs never split.                                                     *)
(***************************************************************************)
EXTENDS Naturals, Sequences, FiniteSets, TLC

(***************************************************************************)
(* Bounds of the model.                                                    *)
(***************************************************************************)
MaxLen == 4

\* The entries a foreign program leaves in the store directory.
MaxEntries == 4

(***************************************************************************)
(* Characters and strings.                                                 *)
(***************************************************************************)
\* Option<T>: None is the empty sequence, Some(x) the one-element sequence.
None == <<>>

Some(x) == <<x>>

\* char::is_ascii_control: U+0000..U+001F and U+007F.
AsciiControl == {"NUL", "TAB", "LF", "CR", "ESC", "DEL"}

\* char::is_whitespace, as used by str::trim.
Whitespace == {" ", "TAB", "LF", "CR"}

FORBIDDEN_CHARACTERS == {"LF", "CR", "TAB", "NUL", "<", ">", ":", "\"", "|", "?", "*"}

\* All strings over the alphabet A of length at most k.
Str(A, k) == UNION {[1..n -> A] : n \in 0..k}

Min(S) == CHOOSE i \in S : \A j \in S : i <= j

Max(S) == CHOOSE i \in S : \A j \in S : j <= i

Front(s) == SubSeq(s, 1, Len(s) - 1)

Last(s) == s[Len(s)]

HasSuffix(s, suf) ==
    /\ Len(s) >= Len(suf)
    /\ SubSeq(s, Len(s) - Len(suf) + 1, Len(s)) = suf

\* str::contains(pred): some character of s is in the set C.
contains(s, C) == \E i \in 1..Len(s) : s[i] \in C

RECURSIVE TrimStart(_)
TrimStart(s) ==
    IF s # <<>> /\ Head(s) \in Whitespace THEN TrimStart(Tail(s)) ELSE s

RECURSIVE TrimEnd(_)
TrimEnd(s) ==
    IF s # <<>> /\ Last(s) \in Whitespace THEN TrimEnd(Front(s)) ELSE s

\* str::trim
trim(s) == TrimEnd(TrimStart(s))

(***************************************************************************)
(* std::path on Unix.  A path is the sequence of its components, as        *)
(* Path::components yields them (and as Path's equality compares them):    *)
(* empty segments and "." segments are dropped, except a "." that starts   *)
(* a relative path.  A component is a string; <<".">> is CurDir and        *)
(* <<".", ".">> is ParentDir.                                              *)
(***************************************************************************)
CurDir == <<".">>

ParentDir == <<".", ".">>

\* The segments of s between the separators, empty ones included.
RECURSIVE Segments(_)
Segments(s) ==
    IF \A i \in 1..Len(s) : s[i] # "/"
    THEN <<s>>
    ELSE LET i == CHOOSE j \in 1..Len(s) :
                      s[j] = "/" /\ \A k \in 1..(j - 1) : s[k] # "/"
         IN  <<SubSeq(s, 1, i - 1)>> \o Segments(SubSeq(s, i + 1, Len(s)))

has_root(s) == s # <<>> /\ s[1] = "/"

\* Path::new(s): the components of s.
PathNew(s) ==
    LET segs == Segments(s)
        keep(i) == /\ segs[i] # <<>>
                   /\ (segs[i] = CurDir => (i = 1 /\ ~has_root(s)))
        RECURSIVE Pick(_)
        Pick(i) == IF i > Len(segs) THEN <<>>
                   ELSE (IF keep(i) THEN <<segs[i]>> ELSE <<>>) \o Pick(i + 1)
    IN  [root |-> has_root(s), comps |-> Pick(1)]

\* Path::is_relative
is_relative(p) == ~p.root

\* Path::join for a relative right operand; an absolute one replaces the base.
join(base, p) ==
    IF p.root THEN p
    ELSE IF base.comps = <<>> /\ ~base.root THEN p
    ELSE [root  |-> base.root,
          comps |-> base.comps \o
                    (IF p.comps # <<>> /\ Head(p.comps) = CurDir
                     THEN Tail(p.comps) ELSE p.comps)]

\* Path::file_name: the last component if it is a normal one.
file_name(p) ==
    IF p.comps = <<>> \/ Last(p.comps) \in {CurDir, ParentDir}
    THEN None
    ELSE Some(Last(p.comps))

\* Path::file_stem of a file name f: the part before the last dot, or all of
\* f when it has no dot or only a leading one.
file_stem(f) ==
    LET dots == {i \in 1..Len(f) : f[i] = "."}
    IN  IF dots = {} \/ Max(dots) = 1 THEN f ELSE SubSeq(f, 1, Max(dots) - 1)

\* Path::parent: the path without its last component.
parent(p) ==
    IF p.comps = <<>> THEN None
    ELSE Some([root |-> p.root, comps |-> Front(p.comps)])

\* PathBuf::set_extension / Path::with_extension: a path without a file name
\* is left alone; otherwise the file name is cut after its stem and "." and
\* the extension are appended.
with_extension(p, ext) ==
    IF file_name(p) = None THEN p
    ELSE [p EXCEPT !.comps[Len(p.comps)] =
              file_stem(@) \o (IF ext = <<>> THEN <<>> ELSE <<".">> \o ext)]

(***************************************************************************)
(* The file system.  A location is the sequence of component names from    *)
(* the root directory; fs.dirs is the set of directories and fs.files maps *)
(* each regular file to its content, a sequence of characters or tokens.   *)
(* Paths handed to the file system are absolute.  Errors are errno names.  *)
(***************************************************************************)
OK == "OK"

IsPrefix(a, b) == Len(a) <= Len(b) /\ SubSeq(b, 1, Len(a)) = a

\* One step of path resolution from the directory loc.
StepInto(loc, c) ==
    IF c = ParentDir THEN (IF loc = <<>> THEN loc ELSE Front(loc))
    ELSE IF c = CurDir THEN loc
    ELSE Append(loc, c)

\* Path resolution: every component is looked up in a directory that exists.
\* The location found need not exist itself.
RECURSIVE WalkFrom(_, _, _)
WalkFrom(fs, comps, loc) ==
    IF comps = <<>> THEN [err |-> OK, loc |-> loc]
    ELSE IF loc \notin fs.dirs
    THEN [err |-> IF loc \in DOMAIN fs.files THEN "ENOTDIR" ELSE "ENOENT",
          loc |-> loc]
    ELSE WalkFrom(fs, Tail(comps), StepInto(loc, Head(comps)))

Lookup(fs, p) == WalkFrom(fs, p.comps, <<>>)

\* fs::read_to_string
read_to_string(fs, p) ==
    LET l == Lookup(fs, p)
    IN  IF l.err # OK THEN [err |-> l.err, buf |-> <<>>]
        ELSE IF l.loc \in DOMAIN fs.files THEN [err |-> OK, buf |-> fs.files[l.loc]]
        ELSE IF l.loc \in fs.dirs THEN [err |-> "EISDIR", buf |-> <<>>]
        ELSE [err |-> "ENOENT", buf |-> <<>>]

\* Path::is_file
is_file(fs, p) ==
    LET l == Lookup(fs, p) IN l.err = OK /\ l.loc \in DOMAIN fs.files

\* fs::create_dir_all: mkdir of the path, and on ENOENT of its ancestors
\* first.  The missing directories are made from the left; a regular file on
\* the way stops it (ENOTDIR from the first mkdir, EEXIST from a later one).
RECURSIVE MkdirFrom(_, _, _, _)
MkdirFrom(fs, comps, loc, made) ==
    IF comps = <<>> THEN [err |-> OK, fs |-> fs]
    ELSE LET c    == Head(comps)
             nloc == StepInto(loc, c)
         IN  IF c \in {ParentDir, CurDir} THEN MkdirFrom(fs, Tail(comps), nloc, made)
             ELSE IF nloc \in DOMAIN fs.files
             THEN [err |-> IF made \/ Tail(comps) = <<>> THEN "EEXIST" ELSE "ENOTDIR",
                   fs  |-> fs]
             ELSE IF nloc \in fs.dirs THEN MkdirFrom(fs, Tail(comps), nloc, made)
             ELSE MkdirFrom([fs EXCEPT !.dirs = @ \cup {nloc}], Tail(comps), nloc, TRUE)

create_dir_all(fs, p) == MkdirFrom(fs, p.comps, <<>>, FALSE)

WithFile(fs, loc, content) ==
    [fs EXCEPT !.files = (loc :> content) @@ @]

WithoutFile(fs, loc) ==
    [fs EXCEPT !.files = [l \in (DOMAIN @) \ {loc} |-> @[l]]]

(***************************************************************************)
(* atomicwrites::AtomicFile.  write() makes a fresh directory              *)
(* .atomicwrite<random> in the parent of the target, creates tmpfile.tmp   *)
(* in it, runs the caller's closure on that file, then commits: rename     *)
(* over the target (AllowOverwrite) or a no-replace rename                 *)
(* (DisallowOverwrite).  The temporary directory is removed when write()   *)
(* returns.  `pid` stands for the random suffix of the caller.             *)
(***************************************************************************)
AllowOverwrite == "AllowOverwrite"

DisallowOverwrite == "DisallowOverwrite"

TmpDirName(pid) == <<".", "atomicwrite", pid>>

TmpFileName == <<"tmpfile", ".", "tmp">>

\* AtomicFile::new: the temporary directory goes into path.parent().
TmpDirLoc(fs, p, pid) ==
    Append(Lookup(fs, Head(parent(p))).loc, TmpDirName(pid))

\* Mutant of TmpFileLoc: the bytes are written into the target itself.
TmpFileLoc_InPlace(fs, p, pid) == Lookup(fs, p).loc

TmpFileLoc(fs, p, pid) == Append(TmpDirLoc(fs, p, pid), TmpFileName)

\* Mutant of TempCreate: the target is unlinked before the new content is
\* written.
TempCreate_UnlinkFirst(fs, p, pid) ==
    LET l == Lookup(fs, Head(parent(p)))
        t == Lookup(fs, p)
    IN  IF l.err # OK \/ l.loc \notin fs.dirs THEN [err |-> "ENOENT", fs |-> fs]
        ELSE [err |-> OK,
              fs  |-> WithFile(WithoutFile([fs EXCEPT !.dirs = @ \cup {TmpDirLoc(fs, p, pid)}],
                                           t.loc),
                               TmpFileLoc(fs, p, pid), <<>>)]

\* tempfile::Builder::tempdir_in followed by File::create of tmpfile.tmp.
TempCreate(fs, p, pid) ==
    LET l == Lookup(fs, Head(parent(p)))
    IN  IF l.err # OK THEN [err |-> l.err, fs |-> fs]
        ELSE IF l.loc \notin fs.dirs
        THEN [err |-> IF l.loc \in DOMAIN fs.files THEN "ENOTDIR" ELSE "ENOENT",
              fs  |-> fs]
        ELSE [err |-> OK,
              fs  |-> WithFile([fs EXCEPT !.dirs = @ \cup {TmpDirLoc(fs, p, pid)}],
                               TmpFileLoc(fs, p, pid), <<>>)]

\* Write::write_all on the file at loc: the bytes are appended.
write_all(fs, loc, bytes) ==
    [fs EXCEPT !.files[loc] = @ \o bytes]

\* Mutant of Commit: the move is a plain rename in both modes.
Commit_Rename(fs, p, pid, overwrite) ==
    LET l   == Lookup(fs, p)
        src == TmpFileLoc(fs, p, pid)
    IN  IF l.err # OK THEN [err |-> l.err, fs |-> fs]
        ELSE IF l.loc \in fs.dirs THEN [err |-> "EISDIR", fs |-> fs]
        ELSE [err |-> OK,
              fs  |-> WithFile(WithoutFile(fs, src), l.loc, fs.files[src])]

\* AtomicFile::commit: replace_atomic is rename(2); move_atomic is a rename
\* that fails with EEXIST when the target exists.
Commit(fs, p, pid, overwrite) ==
    LET l   == Lookup(fs, p)
        src == TmpFileLoc(fs, p, pid)
    IN  IF l.err # OK THEN [err |-> l.err, fs |-> fs]
        ELSE IF overwrite = DisallowOverwrite
                /\ (l.loc \in DOMAIN fs.files \/ l.loc \in fs.dirs)
        THEN [err |-> "EEXIST", fs |-> fs]
        ELSE IF l.loc \in fs.dirs THEN [err |-> "EISDIR", fs |-> fs]
        ELSE [err |-> OK,
              fs  |-> WithFile(WithoutFile(fs, src), l.loc, fs.files[src])]

\* Drop of the TempDir: the temporary directory and what is left in it go.
TempDrop(fs, p, pid) ==
    LET d == TmpDirLoc(fs, p, pid)
    IN  [dirs  |-> fs.dirs \ {d},
         files |-> [l \in {x \in DOMAIN fs.files : ~IsPrefix(d, x)} |-> fs.files[l]]]

RECURSIVE WriteChunks(_, _, _)
WriteChunks(fs, loc, chunks) ==
    IF chunks = <<>> THEN fs
    ELSE WriteChunks(write_all(fs, loc, Head(chunks)), loc, Tail(chunks))

\* Mutant of AtomicWrite: a failed commit cleans up the target as well.
AtomicWrite_UnlinkOnError(fs, p, chunks, overwrite, pid) ==
    LET t == TempCreate(fs, p, pid)
        w == WriteChunks(t.fs, TmpFileLoc(fs, p, pid), chunks)
        c == Commit(w, p, pid, overwrite)
    IN  IF t.err # OK THEN t
        ELSE IF c.err # OK
        THEN [err |-> c.err, fs |-> WithoutFile(TempDrop(c.fs, p, pid), Lookup(fs, p).loc)]
        ELSE [err |-> c.err, fs |-> TempDrop(c.fs, p, pid)]

\* AtomicFile::write run to its end by one caller; the closure writes the
\* chunks with one write_all each.
AtomicWrite(fs, p, chunks, overwrite, pid) ==
    LET t == TempCreate(fs, p, pid)
        w == WriteChunks(t.fs, TmpFileLoc(fs, p, pid), chunks)
        c == Commit(w, p, pid, overwrite)
    IN  IF t.err # OK THEN t
        ELSE [err |-> c.err, fs |-> TempDrop(c.fs, p, pid)]

(***************************************************************************)
(* workspace/data.rs: the record, and its TOML form.  A TOML document is   *)
(* the sequence of its tokens: a key followed by its value, or a table     *)
(* header.  The name field is #[serde(skip)]: it is never written and      *)
(* comes back as String::default().                                        *)
(***************************************************************************)
Workspace(name, dir, ssh, editor, shell) ==
    [name |-> name, dir |-> dir, ssh |-> ssh, editor |-> editor, shell |-> shell]

Ssh(command, user, host, port, identity_file) ==
    [command |-> command, user |-> user, host |-> host, port |-> port,
     identity_file |-> identity_file]

Headers == {"[ssh]", "[editor]", "[shell]"}

\* A key and its value, left out when the value is None.
OptPair(key, opt) == IF opt = None THEN <<>> ELSE <<key, Head(opt)>>

\* toml::to_string_pretty(&Workspace)
to_string_pretty(ws) ==
    <<"dir", ws.dir>>
    \o (IF ws.ssh = None THEN <<>>
        ELSE LET h == Head(ws.ssh)
             IN  <<"[ssh]">> \o OptPair("command", h.command)
                    \o OptPair("user", h.user) \o <<"host", h.host>>
                    \o OptPair("port", h.port)
                    \o OptPair("identity_file", h.identity_file))
    \o (IF ws.editor = None THEN <<>> ELSE <<"[editor]", "command", Head(ws.editor)>>)
    \o (IF ws.shell = None THEN <<>> ELSE <<"[shell]", "command", Head(ws.shell)>>)

\* The tokens of the table under header h (the top-level table for h = "").
TableOf(buf, h) ==
    LET hs    == {i \in 1..Len(buf) : buf[i] = h}
        start == IF h = "" \/ hs = {} THEN 0 ELSE Min(hs)
        stops == {j \in (start + 1)..Len(buf) : buf[j] \in Headers}
        stop  == IF stops = {} THEN Len(buf) + 1 ELSE Min(stops)
    IN  IF h # "" /\ hs = {} THEN None
        ELSE Some(SubSeq(buf, start + 1, stop - 1))

\* The value of key in a table's tokens.
ValueOf(tokens, key) ==
    LET at == {i \in 1..Len(tokens) : i % 2 = 1 /\ tokens[i] = key /\ i < Len(tokens)}
    IN  IF at = {} THEN None ELSE Some(tokens[Min(at) + 1])

\* Option<Editor> and Option<Shell>: a table with the key command.
CommandTable(buf, h) ==
    IF TableOf(buf, h) = None THEN None
    ELSE ValueOf(Head(TableOf(buf, h)), "command")

\* toml::from_str::<Workspace>: the required keys are dir, ssh.host,
\* editor.command and shell.command; a table is a run of key-value pairs.
from_str(buf) ==
    LET top    == Head(TableOf(buf, ""))
        ssh    == TableOf(buf, "[ssh]")
        tables == {top} \cup {Head(t) : t \in {TableOf(buf, h) : h \in Headers} \ {None}}
        ok     == /\ \A t \in tables : Len(t) % 2 = 0
                  /\ ValueOf(top, "dir") # None
                  /\ ssh # None => ValueOf(Head(ssh), "host") # None
                  /\ \A h \in {"[editor]", "[shell]"} :
                         TableOf(buf, h) # None => CommandTable(buf, h) # None
    IN  IF ~ok THEN [err |-> "Parse", ws |-> None]
        ELSE [err |-> OK,
              ws  |-> Some(Workspace(
                  <<>>,
                  Head(ValueOf(top, "dir")),
                  IF ssh = None THEN None
                  ELSE Some(Ssh(ValueOf(Head(ssh), "command"),
                                ValueOf(Head(ssh), "user"),
                                Head(ValueOf(Head(ssh), "host")),
                                ValueOf(Head(ssh), "port"),
                                ValueOf(Head(ssh), "identity_file"))),
                  CommandTable(buf, "[editor]"),
                  CommandTable(buf, "[shell]")))]

(***************************************************************************)
(* workspace.rs: the record store.  Each operation yields the file system  *)
(* it leaves and its result: err is OK, "Validation" (an ensure! failed),  *)
(* "Parse", "Panic" or the errno of the failed call, ctx names the anyhow  *)
(* context of the failure, io is the set of locations the operation        *)
(* handed to the file system.                                              *)
(***************************************************************************)
Ext == <<"toml">>

config_dir == PathNew(<<"/", "config">>)

cache_dir == PathNew(<<"/", "cache">>)

\* workspace::dir_path
dir_path == join(config_dir, PathNew(<<"workspacectl">>))

Result(err, ctx, val, io) == [err |-> err, ctx |-> ctx, val |-> val, io |-> io]

\* workspace::file_path
file_path(name) ==
    IF contains(name, AsciiControl)
    THEN [err |-> "Validation", ctx |-> "ascii control characters", path |-> None]
    ELSE IF contains(name, FORBIDDEN_CHARACTERS)
    THEN [err |-> "Validation", ctx |-> "forbidden characters", path |-> None]
    ELSE IF ~is_relative(PathNew(name))
    THEN [err |-> "Validation", ctx |-> "must be a relative path", path |-> None]
    ELSE [err |-> OK, ctx |-> "",
          path |-> Some(with_extension(join(dir_path, PathNew(name)), Ext))]

\* The path workspace::read opens, before its checks.
read_path(name) == with_extension(PathNew(name), Ext)

\* workspace::read
read(fs, name) ==
    LET path == join(dir_path, read_path(name))
        file == read_to_string(fs, path)
        doc  == from_str(file.buf)
        io   == {Lookup(fs, path).loc}
    IN  IF ~is_relative(read_path(name))
        THEN Result("Validation", "must be a relative path", None, {})
        ELSE IF file.err # OK
        THEN Result(file.err, "reading workspace file", None, io)
        ELSE IF doc.err # OK
        THEN Result(doc.err, "parsing workspace file", None, io)
        ELSE Result(OK, "", Some([Head(doc.ws) EXCEPT !.name = @ \o name]), io)

\* Mutant of create_overwrite: create replaces an existing record.
create_overwrite_Allow == AllowOverwrite

\* The mode workspace::create gives AtomicFile::new.
create_overwrite == DisallowOverwrite

\* workspace::create
create(fs, workspace, pid) ==
    LET fp    == file_path(workspace.name)
        path  == Head(fp.path)
        d     == create_dir_all(fs, Head(parent(path)))
        buf   == to_string_pretty(workspace)
        w     == AtomicWrite(d.fs, path, <<buf>>, create_overwrite, pid)
        dirio == {Lookup(d.fs, Head(parent(path))).loc}
    IN  IF fp.err # OK
        THEN [fs |-> fs, res |-> Result(fp.err, fp.ctx, None, {})]
        ELSE IF parent(path) = None
        THEN [fs |-> fs, res |-> Result("Panic", "path should always have a parent", None, {})]
        ELSE IF d.err # OK
        THEN [fs |-> d.fs, res |-> Result(d.err, "could not create parent directory", None, dirio)]
        ELSE [fs  |-> w.fs,
              res |-> Result(w.err, IF w.err = OK THEN "" ELSE "atomically write workspace file",
                             None, dirio \cup {Lookup(d.fs, path).loc})]

\* The byte order of file names, by the first byte of each character or word.
CharOrd(c) ==
    CASE c = "LF" -> 10
      [] c = "ESC" -> 27
      [] c = " " -> 32
      [] c = "." -> 46
      [] c = "/" -> 47
      [] c = ":" -> 58
      [] c = "a" -> 97
      [] c = "atomicwrite" -> 97
      [] c = "config" -> 99
      [] c = "current" -> 99
      [] c = "p1" -> 112
      [] c = "p2" -> 112
      [] c = "tmp" -> 116
      [] c = "tmpfile" -> 116
      [] c = "toml" -> 116
      [] c = "workspacectl" -> 119

\* OsStr ordering: lexicographic on the bytes.
RECURSIVE NameLess(_, _)
NameLess(a, b) ==
    IF b = <<>> THEN FALSE
    ELSE IF a = <<>> THEN TRUE
    ELSE IF CharOrd(Head(a)) # CharOrd(Head(b)) THEN CharOrd(Head(a)) < CharOrd(Head(b))
    ELSE NameLess(Tail(a), Tail(b))

\* Mutant of SortNames: the entries of a directory in descending order.
RECURSIVE SortNames_Descending(_)
SortNames_Descending(S) ==
    IF S = {} THEN <<>>
    ELSE LET m == CHOOSE x \in S : \A y \in S : ~NameLess(x, y)
         IN  <<m>> \o SortNames_Descending(S \ {m})

\* The names in the set S in ascending order (sort_by_file_name).
RECURSIVE SortNames(_)
SortNames(S) ==
    IF S = {} THEN <<>>
    ELSE LET m == CHOOSE x \in S : \A y \in S : ~NameLess(y, x)
         IN  <<m>> \o SortNames(S \ {m})

\* Mutant of filter_entry: only the control characters are looked for.
filter_entry_ControlOnly(fname) == ~contains(fname, AsciiControl)

\* The filter_entry closure of workspace::list on a file name.
filter_entry(fname) ==
    /\ ~contains(fname, AsciiControl)
    /\ ~contains(fname, FORBIDDEN_CHARACTERS)

\* The path of the location loc relative to base, as a string.
RECURSIVE RelString(_)
RelString(comps) ==
    IF comps = <<>> THEN <<>>
    ELSE IF Len(comps) = 1 THEN Head(comps)
    ELSE Head(comps) \o <<"/">> \o RelString(Tail(comps))

\* str::strip_suffix
strip_suffix(s, suf) ==
    IF HasSuffix(s, suf) THEN Some(SubSeq(s, 1, Len(s) - Len(suf))) ELSE None

\* The entries of the directory loc.
Children(fs, loc) ==
    {l \in fs.dirs \cup DOMAIN fs.files : l # <<>> /\ Front(l) = loc}

\* WalkDir below the directory loc, in sort_by_file_name order, with the
\* filters of workspace::list: the names of the regular files kept.
RECURSIVE WalkDir(_, _, _)
RECURSIVE WalkEntries(_, _, _, _)
WalkDir(fs, base, loc) ==
    WalkEntries(fs, base, loc, SortNames({Last(l) : l \in Children(fs, loc)}))

WalkEntries(fs, base, loc, fnames) ==
    IF fnames = <<>> THEN <<>>
    ELSE LET l    == Append(loc, Head(fnames))
             rel  == RelString(SubSeq(l, Len(base) + 1, Len(l)))
             here == IF ~filter_entry(Head(fnames)) THEN <<>>
                     ELSE IF l \in fs.dirs THEN WalkDir(fs, base, l)
                     ELSE strip_suffix(rel, <<".">> \o Ext)
         IN  here \o WalkEntries(fs, base, loc, Tail(fnames))

\* workspace::list
list(fs) ==
    LET root == Lookup(fs, dir_path)
    IN  IF root.err # OK \/ root.loc \notin fs.dirs THEN <<>>
        ELSE IF ~filter_entry(Last(root.loc)) THEN <<>>
        ELSE WalkDir(fs, root.loc, root.loc)

(***************************************************************************)
(* cache.rs: the pointer store.                                            *)
(***************************************************************************)
Current == "Current"

\* Key::filename
filename(key) == <<"current">>

\* cache::dir_path
cache_dir_path == join(cache_dir, PathNew(<<"workspacectl">>))

\* Mutant of cache_read: the content is returned as it is on disk.
cache_read_NoTrim(fs, key) ==
    LET path == join(cache_dir, PathNew(<<"workspacectl", "/">> \o filename(key)))
        file == read_to_string(fs, path)
    IN  IF file.err # OK
        THEN Result(file.err, "reading cache file", None, {Lookup(fs, path).loc})
        ELSE Result(OK, "", Some(file.buf), {Lookup(fs, path).loc})

\* cache::read
cache_read(fs, key) ==
    LET path == join(cache_dir_path, PathNew(filename(key)))
        file == read_to_string(fs, path)
    IN  IF file.err # OK
        THEN Result(file.err, "reading cache file", None, {Lookup(fs, path).loc})
        ELSE Result(OK, "", Some(trim(file.buf)), {Lookup(fs, path).loc})

\* The write_all calls of the closure cache::write hands to AtomicFile::write.
cache_chunks(value) == <<trim(value), <<"LF">>>>

\* cache::write
cache_write(fs, key, value, pid) ==
    LET d    == create_dir_all(fs, cache_dir_path)
        path == join(cache_dir_path, PathNew(filename(key)))
        w    == AtomicWrite(d.fs, path, cache_chunks(value), AllowOverwrite, pid)
    IN  IF d.err # OK
        THEN [fs |-> d.fs, res |-> Result(d.err, "could not cache directory", None, {})]
        ELSE [fs  |-> w.fs,
              res |-> Result(w.err, IF w.err = OK THEN "" ELSE "atomically write cache file",
                             None, {Lookup(d.fs, path).loc})]

\* workspace::current
current(fs) ==
    LET name == cache_read(fs, Current)
        ws   == read(fs, Head(name.val))
    IN  IF name.err # OK
        THEN Result(name.err, "get current workspace name", None, name.io)
        ELSE IF ws.err # OK
        THEN Result(ws.err, "read current workspace definition", None, name.io \cup ws.io)
        ELSE Result(OK, "", ws.val, name.io \cup ws.io)

(***************************************************************************)
(* lib.rs                                                                  *)
(***************************************************************************)
\* Mutant of open: the pointer is written before the record is read.
open_WriteFirst(fs, name, pid) ==
    LET w  == cache_write(fs, Current, name, pid)
        ws == read(w.fs, name)
    IN  IF w.res.err # OK
        THEN [fs |-> w.fs, res |-> Result(w.res.err, "setting currently open workspace",
                                          None, w.res.io)]
        ELSE [fs  |-> w.fs,
              res |-> Result(ws.err,
                             IF ws.err = OK THEN "" ELSE "reading workpsace definition",
                             None, ws.io \cup w.res.io)]

\* open
open(fs, name, pid) ==
    LET ws == read(fs, name)
        w  == cache_write(fs, Current, name, pid)
    IN  IF ws.err # OK
        THEN [fs |-> fs, res |-> Result(ws.err, "reading workpsace definition", None, ws.io)]
        ELSE [fs  |-> w.fs,
              res |-> Result(w.res.err,
                             IF w.res.err = OK THEN "" ELSE "setting currently open workspace",
                             None, ws.io \cup w.res.io)]

(***************************************************************************)
(* The state machine.  One user runs the commands one after another; each  *)
(* command is one call of an operation above.  argv is the set of names    *)
(* the user types in a behaviour: every command takes its name from it.    *)
(* Further below, two processes run their writes one system call at a      *)
(* time, and may be killed between two calls.                              *)
(***************************************************************************)
VARIABLES
    argv,   \* the names given on the command line
    fs,     \* the file system
    last,   \* the last operation: its name argument, its input and its result
    proc    \* the operations under way in concurrent processes

vars == <<argv, fs, last, proc>>

\* Record names: a letter, the dot, the separator, a forbidden character, a
\* control character that is forbidden too, one that is not, the extension.
Alphabet == {"a", ".", "/", ":", "LF", "ESC", "toml"}

Names == Str(Alphabet, MaxLen)

\* Names typed next to a record named a: letters, dots, separators and the
\* extension.
PairAlphabet == {"a", ".", "/", "toml"}

PairNames == Str(PairAlphabet, MaxLen)

\* Names and values typed at the pointer store: whitespace inside and around.
PointerAlphabet == {"a", ".", " ", "LF"}

PointerNames == Str(PointerAlphabet, MaxLen)

Known == <<"a">>

\* The records lib.rs builds: init_local and init_ssh.
Local == Workspace(<<>>, "proj", None, None, None)

Remote == Workspace(<<>>, "/srv/api", Some(Ssh(None, None, "host", None, None)), None, None)

Bodies == {Local, Remote}

\* The user's process: the random suffix of its temporary directories.
User == "p1"

\* The platform directories exist and are empty.
EmptyFs ==
    [dirs  |-> {<<>>, config_dir.comps, cache_dir.comps},
     files |-> <<>>]

Op(op, name, arg, res) == [op |-> op, name |-> name, arg |-> arg, res |-> res]

NoOp == Op("init", <<>>, None, Result(OK, "", None, {}))

Procs == {"p1", "p2"}

\* A process that has not started its operation.
Idle ==
    [pc |-> "idle", op |-> "", name |-> <<>>, path |-> None, chunks |-> <<>>,
     written |-> 0, overwrite |-> "", orig |-> None, res |-> Result(OK, "", None, {})]

Sequential == proc = [p \in Procs |-> Idle]

Init ==
    /\ Sequential
    /\ argv \in {{n} : n \in Names}
    /\ fs = EmptyFs
    /\ last = NoOp

InitPair ==
    /\ Sequential
    /\ argv \in {{n, Known} : n \in PairNames}
    /\ fs = EmptyFs
    /\ last = NoOp

InitPointer ==
    /\ Sequential
    /\ argv \in {{n, Known} : n \in PointerNames}
    /\ fs = EmptyFs
    /\ last = NoOp

\* workspacectl new: lib.rs init builds the record and calls workspace::create.
Create(n, b) ==
    LET r == create(fs, [b EXCEPT !.name = n], User)
    IN  /\ fs' = r.fs
        /\ last' = Op("create", n, Some(b), r.res)
        /\ UNCHANGED <<argv, proc>>

\* workspace::read, as workspacectl cat calls it.
Read(n) ==
    /\ last' = Op("read", n, None, read(fs, n))
    /\ UNCHANGED <<argv, fs, proc>>

\* workspacectl list
List ==
    /\ last' = Op("list", <<>>, None, Result(OK, "", list(fs), {}))
    /\ UNCHANGED <<argv, fs, proc>>

\* workspacectl open
Open(n) ==
    LET r == open(fs, n, User)
    IN  /\ fs' = r.fs
        /\ last' = Op("open", n, None, r.res)
        /\ UNCHANGED <<argv, proc>>

\* cache::write
CacheWrite(v) ==
    LET r == cache_write(fs, Current, v, User)
    IN  /\ fs' = r.fs
        /\ last' = Op("cache_write", v, None, r.res)
        /\ UNCHANGED <<argv, proc>>

\* cache::write under its caller contract (cache.rs: values cannot contain
\* newlines): the value has none inside.
CacheWriteLine(v) ==
    /\ ~contains(trim(v), {"LF", "CR"})
    /\ CacheWrite(v)

\* cache::read
CacheRead ==
    /\ last' = Op("cache_read", <<>>, None, cache_read(fs, Current))
    /\ UNCHANGED <<argv, fs, proc>>

\* workspace::current, as workspacectl terminal and editor call it.
CurrentWorkspace ==
    /\ last' = Op("current", <<>>, None, current(fs))
    /\ UNCHANGED <<argv, fs, proc>>

Next ==
    \/ \E n \in argv, b \in Bodies : Create(n, b)
    \/ \E n \in argv : Read(n)
    \/ List

NextPointer ==
    \/ \E n \in argv : Create(n, Local)
    \/ \E n \in argv : Open(n)
    \/ \E v \in argv : CacheWriteLine(v)
    \/ CacheRead
    \/ CurrentWorkspace

NextCache ==
    \/ \E v \in argv : CacheWrite(v)
    \/ CacheRead

Spec == Init /\ [][Next]_vars

SpecPair == InitPair /\ [][Next]_vars

SpecPointer == InitPointer /\ [][NextPointer]_vars

SpecCache == InitPointer /\ [][NextCache]_vars

(***************************************************************************)
(* All the commands over one store and one pointer.  The store is empty at *)
(* first, or holds a record file a.toml that was edited by hand and does   *)
(* not parse any more.                                                     *)
(***************************************************************************)
\* Names with separators: nested ones, absolute ones.
StoreAlphabet == {"a", "/"}

StoreNames == Str(StoreAlphabet, MaxLen)

\* A store whose record a lost the value of its dir key.
BrokenFs ==
    WithFile([EmptyFs EXCEPT !.dirs = @ \cup {dir_path.comps}],
             Append(dir_path.comps, Known \o <<".">> \o Ext), <<"dir">>)

InitStore ==
    /\ Sequential
    /\ argv \in {{n, Known} : n \in StoreNames}
    /\ fs \in {EmptyFs, BrokenFs}
    /\ last = NoOp

NextStore ==
    \/ \E n \in argv, b \in Bodies : Create(n, b)
    \/ \E n \in argv : Read(n)
    \/ List
    \/ \E n \in argv : Open(n)
    \/ \E v \in argv : CacheWriteLine(v)
    \/ CurrentWorkspace

SpecStore == InitStore /\ [][NextStore]_vars

(***************************************************************************)
(* The store directory as workspace::list may find it: besides the records *)
(* of create, files and directories other programs left there, with names  *)
(* create would refuse or without the extension.                           *)
(***************************************************************************)
\* File names: a record, one with a forbidden character, one with a control
\* character, a file without the extension.
TreeFileNames ==
    {<<"a", ".", "toml">>, <<":", ".", "toml">>, <<"ESC", ".", "toml">>, <<"a">>}

TreeDirNames == {<<"a">>, <<":">>}

\* What the store directory holds, itself excluded.
Entries(f) ==
    {l \in f.dirs \cup DOMAIN f.files : IsPrefix(dir_path.comps, l) /\ l # dir_path.comps}

StoreDirs(f) == {d \in f.dirs : IsPrefix(dir_path.comps, d)}

InitTree ==
    /\ Sequential
    /\ argv = {}
    /\ fs \in {EmptyFs, [EmptyFs EXCEPT !.dirs = @ \cup {dir_path.comps}]}
    /\ last = NoOp

\* A regular file appears in a directory of the store.
PutFile(d, f) ==
    /\ d \in StoreDirs(fs)
    /\ Cardinality(Entries(fs)) < MaxEntries
    /\ Append(d, f) \notin fs.dirs \cup DOMAIN fs.files
    /\ fs' = WithFile(fs, Append(d, f), to_string_pretty(Local))
    /\ last' = Op("put", f, None, Result(OK, "", None, {}))
    /\ UNCHANGED <<argv, proc>>

\* A directory appears in a directory of the store.
PutDir(d, f) ==
    /\ d \in StoreDirs(fs)
    /\ Cardinality(Entries(fs)) < MaxEntries
    /\ Append(d, f) \notin fs.dirs \cup DOMAIN fs.files
    /\ fs' = [fs EXCEPT !.dirs = @ \cup {Append(d, f)}]
    /\ last' = Op("put", f, None, Result(OK, "", None, {}))
    /\ UNCHANGED <<argv, proc>>

NextTree ==
    \/ \E d \in fs.dirs, f \in TreeFileNames : PutFile(d, f)
    \/ \E d \in fs.dirs, f \in TreeDirNames : PutDir(d, f)
    \/ List

SpecTree == InitTree /\ [][NextTree]_vars

(***************************************************************************)
(* Concurrent processes.  Each process of Procs runs one write, a          *)
(* workspace::create or a cache::write, one file system call at a time:    *)
(* create_dir_all, the creation of the temporary file, each write_all of   *)
(* the closure, the commit.  A process can be killed between two calls.    *)
(* Readers run workspace::read and cache::read in between.                 *)
(***************************************************************************)
ConcNames == {<<"a">>, <<" ", "a", "a">>}

InitConc ==
    /\ proc = [p \in Procs |-> Idle]
    /\ argv = ConcNames
    /\ fs = EmptyFs
    /\ last = NoOp

\* What a reader of the path p finds: its content, or the error.
ReadState(f, p) == read_to_string(f, p)

RECURSIVE Flatten(_)
Flatten(chunks) ==
    IF chunks = <<>> THEN <<>> ELSE Head(chunks) \o Flatten(Tail(chunks))

Finish(p, res) == [proc EXCEPT ![p].pc = "done", ![p].res = res]

\* workspace::create up to its create_dir_all.
BeginCreate(p, n, b) ==
    LET fp   == file_path(n)
        path == Head(fp.path)
        d    == create_dir_all(fs, Head(parent(path)))
        me   == [proc[p] EXCEPT !.op = "create", !.name = n]
    IN  /\ proc[p].pc = "idle"
        /\ IF fp.err # OK
           THEN /\ proc' = [proc EXCEPT ![p] = [me EXCEPT !.pc = "done",
                                !.res = Result(fp.err, fp.ctx, None, {})]]
                /\ fs' = fs
           ELSE IF d.err # OK
           THEN /\ proc' = [proc EXCEPT ![p] = [me EXCEPT !.pc = "done",
                                !.res = Result(d.err, "could not create parent directory",
                                               None, {})]]
                /\ fs' = d.fs
           ELSE /\ proc' = [proc EXCEPT ![p] = [me EXCEPT !.pc = "dir",
                                !.path = Some(path),
                                !.chunks = <<to_string_pretty([b EXCEPT !.name = n])>>,
                                !.overwrite = create_overwrite]]
                /\ fs' = d.fs
        /\ UNCHANGED <<argv, last>>

\* cache::write up to its create_dir_all.
BeginCacheWrite(p, v) ==
    LET d    == create_dir_all(fs, cache_dir_path)
        me   == [proc[p] EXCEPT !.op = "cache_write", !.name = v]
    IN  /\ proc[p].pc = "idle"
        /\ IF d.err # OK
           THEN proc' = [proc EXCEPT ![p] = [me EXCEPT !.pc = "done",
                                !.res = Result(d.err, "could not cache directory", None, {})]]
           ELSE proc' = [proc EXCEPT ![p] = [me EXCEPT !.pc = "dir",
                                !.path = Some(join(cache_dir_path, PathNew(filename(Current)))),
                                !.chunks = cache_chunks(v),
                                !.overwrite = AllowOverwrite]]
        /\ fs' = d.fs
        /\ UNCHANGED <<argv, last>>

\* AtomicFile::write: the temporary directory and the empty tmpfile.tmp.
\* orig keeps what the target held when the write began.
MakeTemp(p) ==
    LET path == Head(proc[p].path)
        t    == TempCreate(fs, path, p)
    IN  /\ proc[p].pc = "dir"
        /\ fs' = t.fs
        /\ proc' = IF t.err # OK
                   THEN Finish(p, Result(t.err, "atomically write", None, {}))
                   ELSE [proc EXCEPT ![p].pc = "temp",
                                     ![p].orig = Some(ReadState(fs, path))]
        /\ UNCHANGED <<argv, last>>

\* One write_all of the closure.
WriteChunk(p) ==
    /\ proc[p].pc = "temp"
    /\ proc[p].written < Len(proc[p].chunks)
    /\ fs' = write_all(fs, TmpFileLoc(fs, Head(proc[p].path), p),
                       proc[p].chunks[proc[p].written + 1])
    /\ proc' = [proc EXCEPT ![p].written = @ + 1]
    /\ UNCHANGED <<argv, last>>

\* AtomicFile::commit, and the drop of the temporary directory.
CommitWrite(p) ==
    LET path == Head(proc[p].path)
        c    == Commit(fs, path, p, proc[p].overwrite)
    IN  /\ proc[p].pc = "temp"
        /\ proc[p].written = Len(proc[p].chunks)
        /\ fs' = TempDrop(c.fs, path, p)
        /\ proc' = Finish(p, Result(c.err, IF c.err = OK THEN "" ELSE "atomically write",
                                    None, {Lookup(fs, path).loc}))
        /\ UNCHANGED <<argv, last>>

\* The process is terminated: what it made so far stays.
Kill(p) ==
    /\ proc[p].pc \in {"dir", "temp"}
    /\ proc' = [proc EXCEPT ![p].pc =
                    IF proc[p].pc = "temp" THEN "killed in write" ELSE "killed"]
    /\ UNCHANGED <<argv, fs, last>>

NextConc ==
    \/ \E p \in Procs, n \in argv, b \in Bodies : BeginCreate(p, n, b)
    \/ \E p \in Procs, v \in argv : BeginCacheWrite(p, v)
    \/ \E p \in Procs : MakeTemp(p)
    \/ \E p \in Procs : WriteChunk(p)
    \/ \E p \in Procs : CommitWrite(p)
    \/ \E p \in Procs : Kill(p)
    \/ \E n \in argv : Read(n)
    \/ CacheRead

SpecConc == InitConc /\ [][NextConc]_vars

(***************************************************************************)
(* Properties of the record store.                                         *)
(***************************************************************************)
\* The store root, and the pointer directory, as locations.
StoreRoot == dir_path.comps

CacheRoot == cache_dir_path.comps

Created == last.op = "create" /\ last.res.err = OK

\* What file_path accepts: the name a create can be asked to store.
ValidName(n) == file_path(n).err = OK

\* <store_root>/<name>.<ext>: the extension appended to the whole name.
AppendedPath(n) == join(dir_path, PathNew(n \o <<".">> \o Ext))

\* C1: a successful create of a record named n followed by read(n) returns a
\* record whose name is n and whose dir, ssh, editor and shell are the ones
\* passed to create.
C1_CreateThenRead ==
    [][(Created /\ last'.op = "read" /\ last'.name = last.name)
         => /\ last'.res.err = OK
            /\ last'.res.val = Some([Head(last.arg) EXCEPT !.name = last.name])]_vars

\* C2: a create that follows a successful create of the same name fails with
\* already-exists, whatever body it carries, and leaves the file system, and
\* so the record file's content, as the first call left it.
C2_SecondCreateFails ==
    [][(Created /\ last'.op = "create" /\ last'.name = last.name)
         => /\ last'.res.err = "EEXIST"
            /\ last'.res.ctx = "atomically write workspace file"
            /\ fs' = fs]_vars

\* A second create with another body has failed and the file holds the first.
C2_Witness ==
    /\ last.op = "create"
    /\ last.res.err = "EEXIST"
    /\ last.res.ctx = "atomically write workspace file"
    /\ read_to_string(fs, Head(file_path(last.name).path)).err = OK
    /\ read_to_string(fs, Head(file_path(last.name).path)).buf
         # to_string_pretty(Head(last.arg))

\* C3: a create or read of a name with a forbidden or an ASCII control
\* character fails with a validation error and hands nothing to the file
\* system.
C3_BadCharsRejected ==
    (/\ last.op \in {"create", "read"}
     /\ contains(last.name, FORBIDDEN_CHARACTERS \cup AsciiControl))
    => (last.res.err = "Validation" /\ last.res.io = {})

\* A name whose path <store_root>/<name>.<ext> lies outside the store root:
\* an absolute one, or one whose parent-directory segments lead out.
RECURSIVE LeadsOut(_, _)
LeadsOut(comps, depth) ==
    IF comps = <<>> THEN FALSE
    ELSE IF Head(comps) = ParentDir
    THEN depth = 0 \/ LeadsOut(Tail(comps), depth - 1)
    ELSE IF Head(comps) = CurDir THEN LeadsOut(Tail(comps), depth)
    ELSE LeadsOut(Tail(comps), depth + 1)

Escapes(n) ==
    LET p == PathNew(n \o <<".">> \o Ext)
    IN  p.root \/ LeadsOut(p.comps, 0)

\* C4: create and read reject every name that resolves outside the store
\* root, an absolute path or one with parent-directory segments such as ../x,
\* so that no file outside the store root is created or read.
C4_EscapingRejected ==
    (last.op \in {"create", "read"} /\ Escapes(last.name))
    => last.res.err # OK

\* C5: the extension is appended to the whole name, so that two different
\* valid names never share a file: after a successful create of n, a create
\* of another valid name m (one with a final component of its own) whose file
\* <store_root>/m.toml is not there does not fail with already-exists.
C5_NoCollision ==
    [][(/\ Created
        /\ last'.op = "create"
        /\ last'.name # last.name
        /\ ValidName(last'.name)
        /\ file_name(PathNew(last'.name)) # None
        /\ ~is_file(fs, AppendedPath(last'.name)))
         => last'.res.err # "EEXIST"]_vars

\* C6: after a successful create of a record named n, list returns n.
C6_CreatedIsListed ==
    Created => \E i \in 1..Len(list(fs)) : list(fs)[i] = last.name

(***************************************************************************)
(* Properties of the pointer store.                                        *)
(***************************************************************************)
PointerPath == join(cache_dir_path, PathNew(filename(Current)))

\* C7: after cache::write(Current, s) succeeds, whatever the pointer held
\* before, cache::read(Current) returns the trimmed s.
C7_WriteThenRead ==
    [][(last.op = "cache_write" /\ last.res.err = OK /\ last'.op = "cache_read")
         => /\ last'.res.err = OK
            /\ last'.res.val = Some(trim(last.name))]_vars

\* A value with whitespace around it was written over an older pointer, and
\* the read that followed returned it trimmed.
C7_Witness ==
    /\ last.op = "cache_read"
    /\ last.res.err = OK
    /\ \E s \in argv : /\ s # trim(s)
                       /\ trim(s) # <<>>
                       /\ last.res.val = Some(trim(s))
                       /\ read_to_string(fs, PointerPath).buf = trim(s) \o <<"LF">>

\* C10: whenever the pointer file exists, its content is one line: a trimmed
\* value without a newline inside, then exactly one newline.
C10_PointerIsOneLine ==
    is_file(fs, PointerPath) =>
        LET buf == read_to_string(fs, PointerPath).buf
        IN  /\ buf # <<>>
            /\ Last(buf) = "LF"
            /\ ~contains(Front(buf), {"LF", "CR"})
            /\ trim(Front(buf)) = Front(buf)

(***************************************************************************)
(* Properties of the atomic writes.                                        *)
(***************************************************************************)
\* The paths the processes write: the record files and the pointer file.
Targets ==
    {Head(file_path(n).path) : n \in {m \in argv : ValidName(m)}} \cup {PointerPath}

\* The whole content the process q is writing.
NewContent(q) == [err |-> OK, buf |-> Flatten(proc[q].chunks)]

\* C8: at every step of every process, what a reader finds at a target is
\* what it found before the step (the prior content, or its absence) or the
\* whole new content of a process that has written all of it.
C8_ReadersSeeOldOrNew ==
    [][\A path \in Targets :
          \/ ReadState(fs', path) = ReadState(fs, path)
          \/ \E q \in Procs : /\ proc[q].pc = "temp"
                              /\ proc[q].path = Some(path)
                              /\ proc[q].written = Len(proc[q].chunks)
                              /\ ReadState(fs', path) = NewContent(q)]_vars

\* A reader has read the pointer while a process was part way through
\* writing another value, and got the whole prior value.
C8_Witness ==
    \E q \in Procs :
        /\ proc[q].pc = "temp"
        /\ proc[q].op = "cache_write"
        /\ proc[q].written = 1
        /\ last.op = "cache_read"
        /\ last.res.err = OK
        /\ last.res.val # Some(trim(proc[q].name))
        /\ ReadState(fs, PointerPath).buf = Head(last.res.val) \o <<"LF">>

\* C9: after a process is killed between the creation of its temporary file
\* and the rename, a reader finds at the target what was there when the
\* write began, the absence of the file included, unless another process
\* has committed its own write there.
C9_KilledWriteLeavesTarget ==
    \A p \in Procs :
        proc[p].pc = "killed in write" =>
            \/ ReadState(fs, Head(proc[p].path)) = Head(proc[p].orig)
            \/ \E q \in Procs \ {p} :
                   /\ proc[q].pc = "done"
                   /\ proc[q].res.err = OK
                   /\ proc[q].path = proc[p].path
                   /\ ReadState(fs, Head(proc[p].path)) = NewContent(q)

\* A process was killed after writing into its temporary file, which is still
\* there, and the target holds the content it had.
C9_Witness ==
    \E p \in Procs :
        /\ proc[p].pc = "killed in write"
        /\ proc[p].written >= 1
        /\ Head(proc[p].orig).err = OK
        /\ ReadState(fs, Head(proc[p].path)) = Head(proc[p].orig)
        /\ Head(proc[p].orig).buf # Flatten(proc[p].chunks)
        /\ TmpFileLoc(fs, Head(proc[p].path), p) \in DOMAIN fs.files

(***************************************************************************)
(* Properties of workspace::current and of open.                           *)
(***************************************************************************)
\* The record named n is in the store: its file <store_root>/<n>.<ext> is a
\* regular file that parses.
RecordExists(f, n) ==
    /\ is_file(f, AppendedPath(n))
    /\ from_str(read_to_string(f, AppendedPath(n)).buf).err = OK

\* C11: workspace::current fails with "get current workspace name", and
\* without a record read, when the pointer file is absent; it fails with
\* "read current workspace definition" when the pointer names no existing
\* record; it succeeds exactly when the pointer and the record it names exist
\* and parse.
C11_CurrentErrors ==
    last.op = "current" =>
        LET ptr == read_to_string(fs, PointerPath)
            v   == trim(ptr.buf)
        IN  /\ ptr.err # OK =>
                 /\ last.res.err # OK
                 /\ last.res.ctx = "get current workspace name"
                 /\ last.res.io = {Lookup(fs, PointerPath).loc}
            /\ (ptr.err = OK /\ ~RecordExists(fs, v)) =>
                 /\ last.res.err # OK
                 /\ last.res.ctx = "read current workspace definition"
            /\ last.res.err = OK <=> (ptr.err = OK /\ RecordExists(fs, v))

(***************************************************************************)
(* Properties of workspace::list.                                          *)
(***************************************************************************)
\* The components below the store root of the file a listed name comes from.
FileComps(m) == PathNew(m \o <<".">> \o Ext).comps

\* The order of the walk: at the first component where two files differ, the
\* smaller file name comes first.
RECURSIVE WalkBefore(_, _)
WalkBefore(x, y) ==
    IF x = <<>> \/ y = <<>> THEN FALSE
    ELSE IF Head(x) # Head(y) THEN NameLess(Head(x), Head(y))
    ELSE WalkBefore(Tail(x), Tail(y))

\* C12 as stated: the names workspace::list returns are in ascending order
\* of the names themselves, whatever the store tree holds (stated for the
\* names without a dot, nested ones included).
C12_AscendingNames ==
    LET l == list(fs)
    IN  \A i, j \in 1..Len(l) :
            (i < j /\ ~contains(l[i] \o l[j], {"."})) => NameLess(l[i], l[j])

\* C12, amended: the names workspace::list returns are in the order of the
\* walk, which sorts the entries of each directory by file name, extension
\* included, and lists a directory's records in the directory's place.
C12_WalkOrder ==
    LET l == list(fs)
    IN  \A i, j \in 1..Len(l) : i < j => WalkBefore(FileComps(l[i]), FileComps(l[j]))

\* A listing of a directory next to a record of the same stem: the records
\* of the directory come before the record, whose name is the smaller.
C12_Witness ==
    /\ last.op = "list"
    /\ Len(last.res.val) = 2
    /\ last.res.val = list(fs)
    /\ NameLess(last.res.val[2], last.res.val[1])
    /\ IsPrefix(last.res.val[2] \o <<"/">>, last.res.val[1])

\* The records list is to return: the regular files below the store root
\* with the extension, every component of whose path passes the checks.
Listed(f) ==
    {SubSeq(RelString(SubSeq(l, Len(StoreRoot) + 1, Len(l))), 1,
            Len(RelString(SubSeq(l, Len(StoreRoot) + 1, Len(l)))) - Len(<<".">> \o Ext)) :
       l \in {x \in DOMAIN f.files :
                /\ IsPrefix(StoreRoot, x)
                /\ \A k \in (Len(StoreRoot) + 1)..Len(x) :
                       ~contains(x[k], AsciiControl \cup FORBIDDEN_CHARACTERS)
                /\ HasSuffix(Last(x), <<".">> \o Ext)}}

\* C13: workspace::list never fails and returns exactly the regular files
\* with the .toml extension whose every path component below the store root
\* passes the control-character and forbidden-character checks, each once.
C13_ListedExactly ==
    last.op = "list" =>
        /\ last.res.err = OK
        /\ {last.res.val[i] : i \in 1..Len(last.res.val)} = Listed(fs)
        /\ Len(last.res.val) = Cardinality(Listed(fs))

\* A listing of a store with a record inside a directory of an invalid name,
\* a file of an invalid name, and a record that is listed.
C13_Witness ==
    /\ last.op = "list"
    /\ Len(last.res.val) = 1
    /\ \E d \in fs.dirs \ {<<>>} : Last(d) = <<":">> /\ Append(d, <<"a", ".", "toml">>) \in DOMAIN fs.files
    /\ \E l \in DOMAIN fs.files : IsPrefix(StoreRoot, l) /\ contains(Last(l), AsciiControl \cup FORBIDDEN_CHARACTERS)

(***************************************************************************)
(* Properties of racing creates and of the records' lifetime.              *)
(***************************************************************************)
\* Two processes have run workspace::create for the same name, with
\* different bodies, through its atomic write.
Raced(p, q) ==
    /\ p # q
    /\ proc[p].pc = "done" /\ proc[q].pc = "done"
    /\ proc[p].op = "create" /\ proc[q].op = "create"
    /\ proc[p].name = proc[q].name
    /\ proc[p].path # None /\ proc[q].path # None
    /\ proc[p].chunks # proc[q].chunks

\* C14: when two processes race workspace::create for the same valid name
\* with different bodies, one create succeeds, the other fails with
\* already-exists, and the record file holds the complete body of the one
\* that succeeded.
C14_OneCreateWins ==
    \A p, q \in Procs :
        Raced(p, q) =>
            /\ {proc[p].res.err, proc[q].res.err} = {OK, "EEXIST"}
            /\ proc[p].res.err = OK =>
                   ReadState(fs, Head(proc[p].path)) = NewContent(p)

\* Both creates had written their whole temporary file before either was
\* published: p1 won, p2 lost.
C14_Witness ==
    /\ Raced("p1", "p2")
    /\ proc["p1"].res.err = OK
    /\ proc["p2"].res.err = "EEXIST"
    /\ proc["p2"].written = Len(proc["p2"].chunks)

\* C15: records are write-once.  No step of create, list, open, cache::write
\* or current changes or removes a file other than the pointer file, and
\* every name that reads as a record before the step reads as the same
\* record after it.
C15_WriteOnce ==
    [][/\ \A l \in DOMAIN fs.files :
              l # Lookup(fs, PointerPath).loc =>
                  l \in DOMAIN fs'.files /\ fs'.files[l] = fs.files[l]
       /\ \A n \in argv :
              read(fs, n).err = OK => read(fs', n) = read(fs, n)]_vars

\* A record was created, later operations wrote the pointer and failed to
\* create the record again, and the record still reads.
C15_Witness ==
    /\ last.op = "create"
    /\ last.res.err = "EEXIST"
    /\ is_file(fs, PointerPath)
    /\ read(fs, last.name).err = OK
    /\ read(fs, last.name).val # Some([Head(last.arg) EXCEPT !.name = last.name])

\* C17: open(n) writes the pointer only once workspace::read(n) succeeded.
\* When the read fails, the record being absent or unparsable or the name
\* rejected, open fails and the pointer file is left as it was, with its old
\* value or absent.
C17_FailedOpenKeepsPointer ==
    [][(last'.op = "open" /\ read(fs, last'.name).err # OK)
         => /\ last'.res.err # OK
            /\ ReadState(fs', PointerPath) = ReadState(fs, PointerPath)
            /\ fs' = fs]_vars

\* An open of the unparsable record has failed and the pointer holds the
\* name of another record, opened before.
C17_Witness ==
    /\ last.op = "open"
    /\ last.res.err = "Parse"
    /\ is_file(fs, PointerPath)
    /\ cache_read(fs, Current).val # Some(last.name)

\* C16: after open(n) has succeeded for a name n whose record is in the
\* store, names with leading or trailing spaces around letters included, the
\* pointer resolves to that record: cache::read(Current)
\* returns n and workspace::current returns the record workspace::read(n)
\* returns.
C16_OpenThenCurrent ==
    (/\ last.op = "open"
     /\ last.res.err = OK
     /\ RecordExists(fs, last.name)
     /\ trim(last.name) # <<>>
     /\ ~contains(last.name, {"."})) =>
        /\ cache_read(fs, Current).val = Some(last.name)
        /\ current(fs).err = OK
        /\ current(fs).val = read(fs, last.name).val

\* C18: every name workspace::list returns reads back the file it was
\* listed from: workspace::read of it opens that file and succeeds, for
\* every store tree that creates build, names with dots included (stated
\* for the listed names that do not begin with a dot).
C18_ListedNamesRead ==
    \A i \in 1..Len(list(fs)) :
        LET m == list(fs)[i]
            r == read(fs, m)
        IN  (m # <<>> /\ Head(m) # ".") =>
                /\ r.err = OK
                /\ r.io = {StoreRoot \o FileComps(m)}

====
